---------------------------- MODULE Spec2Model ----------------------------
(***************************************************************************)
(* A model of the wiki concatenation scripts scripts/concat_wiki.py and    *)
(* scripts/wiki_standalone.py.                                             *)
(*                                                                         *)
(* A Python str is a sequence of one-character strings; "\n" is the line   *)
(* break.  A fixed phrase that no operation looks into is one element.     *)
(***************************************************************************)
EXTENDS Integers, Sequences, FiniteSets, TLC

VARIABLES
    \* main(): the page pipeline of both scripts
    variant,          \* which script runs: "concat" or "standalone"
    timestamp,        \* standalone: whether --timestamp was given
    wiki_dir,         \* the directory: filename stem of each *.md -> its text
    pages,            \* main's list of page records
    page_anchor_map,  \* main's dict: normalized key -> anchor
    toc,              \* main's list of table-of-contents lines
    output_sections,  \* main's list of emitted sections (after the toc)
    out_file,         \* the text main writes to --out
    pc,               \* main's position
    idx               \* main's loop index

mainVars == <<variant, timestamp, wiki_dir, pages, page_anchor_map, toc,
              output_sections, out_file, pc, idx>>

VARIABLES
    \* heading normalization applied to one text
    h_title,          \* the page title
    h_content,        \* the text given
    h_demoted,        \* demote_atx_headings_outside_code(h_content)
    h_once,           \* normalize_heading(h_title, h_content)
    h_twice,          \* normalize_heading(h_title, h_once)
    h_pc

headVars == <<h_title, h_content, h_demoted, h_once, h_twice, h_pc>>

VARIABLES
    \* the two link rewrites applied to one text under a fixed anchor map
    l_text,           \* the text given
    l_map,            \* the anchor map
    l_once,           \* the text after the two rewrites
    l_twice,          \* l_once after the two rewrites again
    l_pc

linkVars == <<l_text, l_map, l_once, l_twice, l_pc>>

VARIABLES
    \* the anchor of one page title
    s_title,          \* the title
    s_slug,           \* anchor_slug(s_title)
    s_page,           \* the page main makes of a file with that stem
    s_map,            \* the anchor map after registering the page
    s_entry,          \* the page's line of the table of contents
    s_pc

slugVars == <<s_title, s_slug, s_page, s_map, s_entry, s_pc>>

VARIABLES
    \* process_images, over the image references of one run of
    \* wiki_standalone.py
    embed,            \* --embed-images
    images_dir,       \* None when embedding, the images directory otherwise
    img_files,        \* the file names the images directory holds
    img_refs,         \* the image references, in the order they are processed
    image_cache,      \* resolved URL -> the URL text returned for it
    img_out,          \* the references emitted so far
    img_fetched,      \* the URLs download_image was called with
    img_nodata,       \* the references whose downloads all gave no image
    img_pc,
    img_idx

imgVars == <<embed, images_dir, img_files, img_refs, image_cache, img_out,
             img_fetched, img_nodata, img_pc, img_idx>>

VARIABLES
    \* download_image, one top-level call
    d_url,            \* the url argument of the call that is running
    d_requests,       \* the URLs urlopen was called with, in order
    d_responses,      \* what each of these calls gave
    d_result,         \* what the top-level call returned
    d_pc

dlVars == <<d_url, d_requests, d_responses, d_result, d_pc>>

vars == <<mainVars, headVars, linkVars, slugVars, imgVars, dlVars>>

-----------------------------------------------------------------------------
(* Bounds *)

\* the pages of a wiki directory
MaxPages == 3

\* the lines of a text given to heading normalization
MaxLines == 3

\* the pieces of a text given to link rewriting
MaxTokens == 4

\* the characters of a title given to anchor_slug
MaxTitleLen == 4

\* the image references of a run
MaxRefs == 2

-----------------------------------------------------------------------------
(* Characters and strings *)

\* the grave accent (U+0060), which a TLA+ string literal cannot hold
Backtick == "<grave>"

Ascii ==
    << " ", "!", "\"", "#", "$", "%", "&", "'", "(", ")", "*", "+", ",", "-",
       ".", "/", "0", "1", "2", "3", "4", "5", "6", "7", "8", "9", ":", ";",
       "<", "=", ">", "?", "@", "A", "B", "C", "D", "E", "F", "G", "H", "I",
       "J", "K", "L", "M", "N", "O", "P", "Q", "R", "S", "T", "U", "V", "W",
       "X", "Y", "Z", "[", "\\", "]", "^", "_", Backtick, "a", "b", "c", "d", "e",
       "f", "g", "h", "i", "j", "k", "l", "m", "n", "o", "p", "q", "r", "s",
       "t", "u", "v", "w", "x", "y", "z", "{", "|", "}", "~" >>

\* ord(c) for the printable ASCII characters; "\n" is 10
CodeOf == [c \in {Ascii[i] : i \in DOMAIN Ascii} |->
              CHOOSE k \in 32..126 : Ascii[k - 31] = c]

Code(c) == IF c = "\n" THEN 10 ELSE CodeOf[c]

Digits == {"0", "1", "2", "3", "4", "5", "6", "7", "8", "9"}

LowerLetters == {Ascii[i] : i \in 66..91}

UpperLetters == {Ascii[i] : i \in 34..59}

IsDigit(c) == c \in Digits

IsLowerAZ(c) == c \in LowerLetters

IsUpperAZ(c) == c \in UpperLetters

\* \s of the regular expressions, str.strip() and str.lstrip()
IsSpace(c) == c \in {" ", "\n"}

\* \w of the regular expressions
IsWord(c) == IsDigit(c) \/ IsLowerAZ(c) \/ IsUpperAZ(c) \/ c = "_"

DigitVal(c) == Code(c) - 48

LowerChar(c) == IF IsUpperAZ(c) THEN Ascii[Code(c) + 1] ELSE c

\* str.lower()
Lower(s) == [i \in DOMAIN s |-> LowerChar(s[i])]

\* str.replace(a, b) for single characters
ReplaceChar(s, a, b) == [i \in DOMAIN s |-> IF s[i] = a THEN b ELSE s[i]]

Drop(s, n) == SubSeq(s, n + 1, Len(s))

Take(s, n) == SubSeq(s, 1, n)

\* the number of leading characters of s that are in cs
RECURSIVE LeadRun(_, _)
LeadRun(s, cs) ==
    IF s # <<>> /\ Head(s) \in cs THEN 1 + LeadRun(Tail(s), cs) ELSE 0

\* the number of trailing characters of s that are in cs
RECURSIVE TrailRun(_, _)
TrailRun(s, cs) ==
    IF s # <<>> /\ s[Len(s)] \in cs
    THEN 1 + TrailRun(Take(s, Len(s) - 1), cs) ELSE 0

\* str.lstrip(chars), str.rstrip(chars), str.strip(chars)
LStripChars(s, cs) == Drop(s, LeadRun(s, cs))

RStripChars(s, cs) == Take(s, Len(s) - TrailRun(s, cs))

StripChars(s, cs) == RStripChars(LStripChars(s, cs), cs)

WhiteSpace == {" ", "\n"}

\* str.lstrip(), str.rstrip(), str.strip()
LStrip(s) == LStripChars(s, WhiteSpace)

RStrip(s) == RStripChars(s, WhiteSpace)

Strip(s) == StripChars(s, WhiteSpace)

\* str.startswith(p)
StartsWith(s, p) == Len(s) >= Len(p) /\ Take(s, Len(p)) = p

\* str.endswith(p)
EndsWith(s, p) == Len(s) >= Len(p) /\ Drop(s, Len(s) - Len(p)) = p

\* sub in text
Contains(text, sub) ==
    \E i \in 0..(Len(text) - Len(sub)) : SubSeq(text, i + 1, i + Len(sub)) = sub

\* the first index of character c in s, 0 when absent
RECURSIVE IndexOf(_, _)
IndexOf(s, c) ==
    IF s = <<>> THEN 0
    ELSE IF Head(s) = c THEN 1
    ELSE LET r == IndexOf(Tail(s), c) IN IF r = 0 THEN 0 ELSE r + 1

\* str comparison: s < t
RECURSIVE StrLess(_, _)
StrLess(s, t) ==
    IF t = <<>> THEN FALSE
    ELSE IF s = <<>> THEN TRUE
    ELSE IF Head(s) = Head(t) THEN StrLess(Tail(s), Tail(t))
    ELSE Code(Head(s)) < Code(Head(t))

\* re.sub(r"\s+", " ", s)
RECURSIVE CollapseSpace(_)
CollapseSpace(s) ==
    IF s = <<>> THEN <<>>
    ELSE IF IsSpace(Head(s))
         THEN <<" ">> \o CollapseSpace(LStrip(s))
         ELSE <<Head(s)>> \o CollapseSpace(Tail(s))

\* "".join(parts) for a sequence of strings, with separator sep
RECURSIVE Join(_, _)
Join(parts, sep) ==
    IF parts = <<>> THEN <<>>
    ELSE IF Len(parts) = 1 THEN parts[1]
    ELSE parts[1] \o sep \o Join(Tail(parts), sep)

-----------------------------------------------------------------------------
(* Titles, sort keys, anchors and lookup keys *)

\* U+2010 HYPHEN, as one character
Hyphen2010 == "<U+2010>"

\* IGNORE: the filenames collect_pages skips, as stems of *.md names
IGNORE ==
    { <<"_", "S", "i", "d", "e", "b", "a", "r">>,
      <<"_", "F", "o", "o", "t", "e", "r">>,
      <<"_", "H", "e", "a", "d", "e", "r">>,
      <<"H", "o", "m", "e">> }

MdSuffix == <<".", "m", "d">>

\* Path.name of the file whose stem is given
FileName(stem) == stem \o MdSuffix

\* s.split('-', 1)[1].lstrip() in concat_wiki.py and
\* s.split('-', 1)[1].lstrip(' -\u2010') in wiki_standalone.py, when s has a
\* hyphen; s otherwise
strip_numeric_prefix(s) ==
    IF IndexOf(s, "-") = 0 THEN s
    ELSE LET rest == Drop(s, IndexOf(s, "-"))
         IN IF variant = "concat" THEN LStrip(rest)
            ELSE LStripChars(rest, {" ", "-", Hyphen2010})

\* ORDER_RE.match(stem): ^\s*(?P<num>\d{2})\b ; 0 stands for None
OrderOf(stem) ==
    LET t == LStrip(stem)
    IN IF /\ Len(t) >= 2 /\ IsDigit(t[1]) /\ IsDigit(t[2])
          /\ (Len(t) = 2 \/ ~IsWord(t[3]))
       THEN <<10 * DigitVal(t[1]) + DigitVal(t[2])>>
       ELSE <<>>

\* The title extract_order_and_title returns (the text argument is unused)
TitleOf(stem) ==
    Strip(ReplaceChar(ReplaceChar(strip_numeric_prefix(stem), "-", " "),
                      "_", " "))

\* The value main stores under "order"
NoOrder == 999

extract_order_and_title(stem) ==
    [order |-> IF OrderOf(stem) = <<>> THEN NoOrder ELSE OrderOf(stem)[1],
     title |-> TitleOf(stem)]

\* extract_sort_key: re.match(r'^\s*(\d{2})([a-z])?\b', stem, re.IGNORECASE),
\* <<num, letter>> with letter "" or one lowercase letter
IsLetter(c) == IsLowerAZ(c) \/ IsUpperAZ(c)

extract_sort_key(stem) ==
    LET t == LStrip(stem)
        two == Len(t) >= 2 /\ IsDigit(t[1]) /\ IsDigit(t[2])
        num == 10 * DigitVal(t[1]) + DigitVal(t[2])
    IN IF two /\ Len(t) >= 3 /\ IsLetter(t[3])
              /\ (Len(t) = 3 \/ ~IsWord(t[4]))
       THEN <<num, <<LowerChar(t[3])>> >>
       ELSE IF two /\ (Len(t) = 2 \/ ~IsWord(t[3]))
       THEN <<num, <<>> >>
       ELSE <<NoOrder, <<>> >>

\* Python's tuple comparison k1 <= k2 of two sort keys
KeyLeq(k1, k2) ==
    \/ k1[1] < k2[1]
    \/ k1[1] = k2[1] /\ ~StrLess(k2[2], k1[2])

\* re.sub(r"[^a-z0-9]+", "-", t)
IsSlugChar(c) == IsLowerAZ(c) \/ IsDigit(c)

RECURSIVE HyphenateRuns(_)
HyphenateRuns(t) ==
    IF t = <<>> THEN <<>>
    ELSE IF IsSlugChar(Head(t)) THEN <<Head(t)>> \o HyphenateRuns(Tail(t))
    ELSE LET n == CHOOSE k \in 1..Len(t) :
                    /\ \A j \in 1..k : ~IsSlugChar(t[j])
                    /\ (k = Len(t) \/ IsSlugChar(t[k + 1]))
         IN <<"-">> \o HyphenateRuns(Drop(t, n))

\* a slug that keeps the hyphens at its ends
anchor_slug_KeepEdges(t) == HyphenateRuns(Lower(t))

anchor_slug(t) == StripChars(HyphenateRuns(Lower(t)), {"-"})

normalize_key(s) ==
    CollapseSpace(ReplaceChar(ReplaceChar(Lower(Strip(s)), "_", " "),
                              "-", " "))

build_page_keyset(title, stem) ==
    { normalize_key(title),
      normalize_key(strip_numeric_prefix(title)),
      normalize_key(stem),
      normalize_key(strip_numeric_prefix(stem)),
      normalize_key(ReplaceChar(ReplaceChar(stem, "-", " "), "_", " ")) }

-----------------------------------------------------------------------------
(* Link rewriting *)

\* dict.get(k): None when k is absent
None == <<"<None>">>

Get(map, k) == IF k \in DOMAIN map THEN map[k] ELSE None

\* Python truth of an anchor: None and "" are false
Truthy(a) == a # None /\ a # <<>>

\* the number of leading characters of s that are not in cs
RECURSIVE RunNot(_, _)
RunNot(s, cs) ==
    IF s # <<>> /\ Head(s) \notin cs THEN 1 + RunNot(Tail(s), cs) ELSE 0

\* str.split(c, 1)[0]
BeforeChar(s, c) == IF IndexOf(s, c) = 0 THEN s ELSE Take(s, IndexOf(s, c) - 1)

Str_http == <<"h", "t", "t", "p", ":", "/", "/">>

Str_https == <<"h", "t", "t", "p", "s", ":", "/", "/">>

Str_data == <<"d", "a", "t", "a", ":">>

Str_mailto == <<"m", "a", "i", "l", "t", "o", ":">>

is_absolute_or_special(url) ==
    LET u == Strip(url)
    IN \/ StartsWith(u, Str_http)
       \/ StartsWith(u, Str_https)
       \/ StartsWith(u, Str_data)
       \/ StartsWith(u, Str_mailto)
       \/ StartsWith(u, <<"#">>)

\* WIKI_LINK_RE.match at the start of s:
\*   \[\[([^\]|]+)(?:\|([^\]]+))?\]\]
\* len = 0 when there is no match; g2 = None when the label group is absent
WikiMatch(s) ==
    LET no == [len |-> 0, g1 |-> <<>>, g2 |-> None]
    IN IF ~StartsWith(s, <<"[", "[">>) THEN no
       ELSE LET n1 == RunNot(Drop(s, 2), {"]", "|"})
                r1 == Drop(s, 2 + n1)
                n2 == IF r1 # <<>> /\ Head(r1) = "|"
                      THEN RunNot(Tail(r1), {"]"}) ELSE 0
                r2 == Drop(r1, 1 + n2)
            IN IF n1 = 0 THEN no
               ELSE IF StartsWith(r1, <<"]", "]">>)
               THEN [len |-> 2 + n1 + 2, g1 |-> SubSeq(s, 3, 2 + n1),
                     g2 |-> None]
               ELSE IF n2 > 0 /\ StartsWith(r2, <<"]", "]">>)
               THEN [len |-> 2 + n1 + 1 + n2 + 2,
                     g1 |-> SubSeq(s, 3, 2 + n1),
                     g2 |-> SubSeq(r1, 2, 1 + n2)]
               ELSE no

\* a link whose target lacks the "#"
LocalLink_NoHash(label, anchor) ==
    <<"[">> \o label \o <<"]", "(">> \o anchor \o <<")">>

\* the local link f"[{label}](#{anchor})"
LocalLink(label, anchor) ==
    <<"[">> \o label \o <<"]", "(", "#">> \o anchor \o <<")">>

\* a lookup that falls back on the slug of the name when no page has it
WikiAnchor_AlwaysFound(page, map) ==
    IF Truthy(Get(map, normalize_key(page)))
    THEN Get(map, normalize_key(page))
    ELSE anchor_slug(page)

\* the two-stage lookup of rewrite_wiki_links_to_local.repl
WikiAnchor(page, map) ==
    IF Truthy(Get(map, normalize_key(page)))
    THEN Get(map, normalize_key(page))
    ELSE Get(map, normalize_key(strip_numeric_prefix(page)))

\* a replacement that shows the page name whatever label the reference gives
WikiRepl_PageAsLabel(m, whole, map) ==
    LET page   == Strip(m.g1)
        anchor == WikiAnchor(page, map)
    IN IF Truthy(anchor) THEN LocalLink(page, anchor) ELSE whole

\* rewrite_wiki_links_to_local.repl, for a match m whose text is whole
WikiRepl(m, whole, map) ==
    LET page   == Strip(m.g1)
        label  == IF m.g2 # None THEN Strip(m.g2) ELSE page
        anchor == WikiAnchor(page, map)
    IN IF Truthy(anchor) THEN LocalLink(label, anchor) ELSE whole

\* WIKI_LINK_RE.sub(repl, text)
RECURSIVE rewrite_wiki_links_to_local(_, _)
rewrite_wiki_links_to_local(text, map) ==
    IF text = <<>> THEN <<>>
    ELSE LET m == WikiMatch(text)
         IN IF m.len > 0
            THEN WikiRepl(m, Take(text, m.len), map)
                 \o rewrite_wiki_links_to_local(Drop(text, m.len), map)
            ELSE <<Head(text)>>
                 \o rewrite_wiki_links_to_local(Tail(text), map)

\* MD_LINK_RE.match at the start of s, prev the character before s ("" at
\* the start of the text):  (?<!\!)\[(?P<label>[^\]]+)\]\((?P<target>[^)]+)\)
MdMatch(s, prev) ==
    LET no == [len |-> 0, label |-> <<>>, target |-> <<>>]
    IN IF prev = "!" \/ s = <<>> THEN no
       ELSE IF Head(s) # "[" THEN no
       ELSE LET n1 == RunNot(Tail(s), {"]"})
                r1 == Drop(s, 1 + n1)
                n2 == RunNot(Drop(r1, 2), {")"})
                r2 == Drop(r1, 2 + n2)
            IN IF /\ n1 > 0 /\ StartsWith(r1, <<"]", "(">>)
                  /\ n2 > 0 /\ StartsWith(r2, <<")">>)
               THEN [len |-> 1 + n1 + 2 + n2 + 1,
                     label |-> SubSeq(s, 2, 1 + n1),
                     target |-> SubSeq(r1, 3, 2 + n2)]
               ELSE no

\* str.split("/") of a path
RECURSIVE SplitChar(_, _)
SplitChar(s, c) ==
    IF IndexOf(s, c) = 0 THEN <<s>>
    ELSE <<Take(s, IndexOf(s, c) - 1)>> \o SplitChar(Drop(s, IndexOf(s, c)), c)

\* Path(url_only).name: the last component, "" and "." components dropped
PathName(p) ==
    LET parts == SelectSeq(SplitChar(p, "/"),
                           LAMBDA x : x # <<>> /\ x # <<".">>)
    IN IF parts = <<>> THEN <<>> ELSE parts[Len(parts)]

\* the page name rewrite_md_links_to_local.repl reads from a target
MdTargetName(target) ==
    LET url_only == BeforeChar(BeforeChar(BeforeChar(target, " "), "#"), "?")
        name     == PathName(url_only)
        bare     == IF EndsWith(Lower(name), MdSuffix)
                    THEN Take(name, Len(name) - 3) ELSE name
    IN Strip(ReplaceChar(ReplaceChar(bare, "-", " "), "_", " "))

\* page_anchor_map.get(key) or page_anchor_map.get(key2)
MdAnchor(name, map) ==
    IF Truthy(Get(map, normalize_key(name)))
    THEN Get(map, normalize_key(name))
    ELSE Get(map, normalize_key(strip_numeric_prefix(name)))

\* rewrite_md_links_to_local.repl
MdRepl(m, whole, map) ==
    LET target == Strip(m.target)
        anchor == MdAnchor(MdTargetName(target), map)
    IN IF is_absolute_or_special(target) THEN whole
       ELSE IF Truthy(anchor) THEN LocalLink(m.label, anchor)
       ELSE whole

\* MD_LINK_RE.sub(repl, text), scanning from a position whose previous
\* character is prev
RECURSIVE MdSub(_, _, _)
MdSub(text, prev, map) ==
    IF text = <<>> THEN <<>>
    ELSE LET m == MdMatch(text, prev)
         IN IF m.len > 0
            THEN MdRepl(m, Take(text, m.len), map)
                 \o MdSub(Drop(text, m.len), ")", map)
            ELSE <<Head(text)>> \o MdSub(Tail(text), Head(text), map)

rewrite_md_links_to_local(text, map) == MdSub(text, "", map)

-----------------------------------------------------------------------------
(* Heading normalization *)

\* str.splitlines(): the lines without their breaks, no last empty line
splitlines(text) ==
    LET parts == SplitChar(text, "\n")
    IN IF parts[Len(parts)] = <<>> THEN Take(parts, Len(parts) - 1) ELSE parts

IsBlank(line) == \A i \in DOMAIN line : IsSpace(line[i])

\* (?P<underline>=+|-+)\s*$ on one line: "=" or "-" when the line is a run
\* of that character followed by blanks only, "" otherwise
UnderlineOf(line) ==
    IF line # <<>> /\ Head(line) \in {"=", "-"}
       /\ IsBlank(Drop(line, LeadRun(line, {Head(line)})))
    THEN Head(line) ELSE ""

\* SETEXT_RE.sub(repl, text) on the lines of text.  SETEXT_RE is
\*   ^(?P<title>.+?)\n(?P<underline>=+|-+)\s*$   (re.MULTILINE)
\* a match takes a non-empty line and the underline below it; its \s* also
\* takes the blank lines below the underline, up to the last line break
\* before the next non-blank line, and repl's own "\n" then ends the heading
RECURSIVE SetextLines(_)
SetextLines(L) ==
    IF Len(L) < 2 THEN L
    ELSE IF L[1] # <<>> /\ UnderlineOf(L[2]) # ""
    THEN LET rest == Drop(L, 2)
             m == CHOOSE k \in 0..Len(rest) :
                    /\ \A j \in 1..k : IsBlank(rest[j])
                    /\ (k = Len(rest) \/ ~IsBlank(rest[k + 1]))
             mark == IF UnderlineOf(L[2]) = "=" THEN <<"#", " ">>
                     ELSE <<"#", "#", " ">>
         IN << mark \o Strip(L[1]), <<>> >> \o SetextLines(Drop(rest, m))
    ELSE <<L[1]>> \o SetextLines(Tail(L))

convert_setext_to_atx(text) == Join(SetextLines(SplitChar(text, "\n")), <<"\n">>)

Fence3 == {<<Backtick, Backtick, Backtick>>, <<"~", "~", "~">>}

\* FENCE_RE.match(line.strip())
IsFenceLine(line) == \E f \in Fence3 : StartsWith(Strip(line), f)

\* the deepest heading level
MaxLevel == 6

Hashes(n) == [i \in 1..n |-> "#"]

\* ATX_RE.match(line): ^(?P<hashes>#{1,6})(?P<sp>\s+)(?P<text>.+?)\s*$
\* level = 0 when there is no match
AtxMatch(line) ==
    LET h    == LeadRun(line, {"#"})
        r    == Drop(line, h)
        w    == LeadRun(r, WhiteSpace)
        body == Drop(r, w)
        no   == [level |-> 0, sp |-> <<>>, text |-> <<>>]
    IN IF h < 1 \/ h > MaxLevel \/ w < 1 THEN no
       ELSE IF body # <<>>
       THEN [level |-> h, sp |-> Take(r, w), text |-> RStrip(body)]
       ELSE IF w >= 2
       THEN [level |-> h, sp |-> Take(r, w - 1), text |-> <<r[w]>>]
       ELSE no

MinOf(a, b) == IF a < b THEN a ELSE b

\* one line of demote_atx_headings_outside_code, outside a fence
DemoteLine(line) ==
    LET m == AtxMatch(line)
    IN IF m.level > 0
       THEN Hashes(MinOf(m.level + 1, MaxLevel)) \o m.sp \o m.text
       ELSE line

\* a loop that demotes every heading line, fenced or not
DemoteLines_IgnoreFences(lines, in_code) ==
    [i \in DOMAIN lines |-> DemoteLine(lines[i])]

\* the loop of demote_atx_headings_outside_code from fence state in_code
RECURSIVE DemoteLines(_, _)
DemoteLines(lines, in_code) ==
    IF lines = <<>> THEN <<>>
    ELSE IF IsFenceLine(Head(lines))
    THEN <<Head(lines)>> \o DemoteLines(Tail(lines), ~in_code)
    ELSE IF ~in_code
    THEN <<DemoteLine(Head(lines))>> \o DemoteLines(Tail(lines), in_code)
    ELSE <<Head(lines)>> \o DemoteLines(Tail(lines), in_code)

demote_atx_headings_outside_code(text) ==
    Join(DemoteLines(splitlines(text), FALSE), <<"\n">>)

normalize_heading(page_title, content) ==
    <<"#", " ">> \o page_title \o <<"\n", "\n">>
    \o LStrip(demote_atx_headings_outside_code(convert_setext_to_atx(content)))

-----------------------------------------------------------------------------
(* main(): the directory, the page list, the anchor map, the sections *)

\* The filename stems a directory is drawn from
Stems ==
    { <<"0", "1", "-", "A">>,
      <<"0", "1", "a", "-", "B">>,
      <<"0", "1", "B", "-", "A">>,
      <<"0", "2", "-", "0", "1", "-", "A">>,
      <<"0", "2", "-", "-", "B">>,
      <<"0", "3", "-", "+">>,
      <<"0", "1", "_", "C">>,
      <<"a", "-", "B">>,
      <<"B">>,
      <<"H", "o", "m", "e">> }

\* The link targets and the page texts a file is drawn from
WikiLink(target) == <<"[", "[">> \o target \o <<"]", "]">>

WikiLinkLabel(target, label) ==
    <<"[", "[">> \o target \o <<"|">> \o label \o <<"]", "]">>

MdLink(label, target) == <<"[">> \o label \o <<"]", "(">> \o target \o <<")">>

InText(link) == <<"x", " ">> \o link \o <<".">>

\* The references a page text is written with: kind "wiki" or "md", the
\* target, and the label (None for [[Target]])
Probes ==
    { [kind |-> "wiki", target |-> <<"0", "1", " ", "A">>, label |-> None],
      [kind |-> "wiki", target |-> <<"A">>, label |-> <<" ", "L">>],
      [kind |-> "wiki", target |-> <<"+">>, label |-> None],
      [kind |-> "wiki", target |-> <<"Q">>, label |-> <<"L">>],
      [kind |-> "wiki", target |-> <<"9", "9", "-", "A">>, label |-> None],
      [kind |-> "md", target |-> <<"Q", ".", "m", "d">>, label |-> <<"L">>],
      [kind |-> "md",
       target |-> <<"d", "/", "0", "1", "-", "A", ".", "m", "d", "#", "s">>,
       label |-> <<"L">>],
      [kind |-> "md", target |-> <<"#", "a">>, label |-> <<"L">>] }

ProbeRef(pr) ==
    IF pr.kind = "md" THEN MdLink(pr.label, pr.target)
    ELSE IF pr.label = None THEN WikiLink(pr.target)
    ELSE WikiLinkLabel(pr.target, pr.label)

\* The page texts a file is drawn from
Texts == { InText(ProbeRef(pr)) : pr \in Probes }

\* --repo
Repo == <<"o", "/", "r">>

HexDigits ==
    <<"0", "1", "2", "3", "4", "5", "6", "7", "8", "9", "A", "B", "C", "D",
      "E", "F">>

\* urllib.parse.quote(s): letters, digits and _.-~/ are kept, any other
\* character becomes %XX
QuoteChar(c) ==
    IF IsWord(c) \/ c \in {".", "-", "~", "/"} THEN <<c>>
    ELSE <<"%", HexDigits[(Code(c) \div 16) + 1], HexDigits[(Code(c) % 16) + 1]>>

RECURSIVE quote(_)
quote(s) == IF s = <<>> THEN <<>> ELSE QuoteChar(Head(s)) \o quote(Tail(s))

\* Path comparison inside one directory: by filename
PathLess(s, t) == StrLess(FileName(s), FileName(t))

\* sorted(wiki_dir.glob("*.md")) for the set S of stems
RECURSIVE SortedPaths(_)
SortedPaths(S) ==
    IF S = {} THEN <<>>
    ELSE LET least == CHOOSE x \in S : \A y \in S \ {x} : PathLess(x, y)
         IN <<least>> \o SortedPaths(S \ {least})

\* collect_pages(wiki_dir): the *.md files in sorted order, IGNORE left out
collect_pages(dir) ==
    SelectSeq(SortedPaths(DOMAIN dir), LAMBDA stem : stem \notin IGNORE)

\* the record main appends for one file
PageOf(stem, raw) ==
    [path  |-> stem,
     raw   |-> raw,
     order |-> extract_order_and_title(stem).order,
     title |-> extract_order_and_title(stem).title,
     stem  |-> stem]

\* list.sort(key=...): the stable sort, each element put behind the elements
\* whose key is not greater
RECURSIVE InsertByKey(_, _)
InsertByKey(sorted, p) ==
    IF sorted = <<>> THEN <<p>>
    ELSE IF KeyLeq(extract_sort_key(Head(sorted).path), extract_sort_key(p.path))
    THEN <<Head(sorted)>> \o InsertByKey(Tail(sorted), p)
    ELSE <<p>> \o sorted

RECURSIVE SortPagesFrom(_, _)
SortPagesFrom(sorted, rest) ==
    IF rest = <<>> THEN sorted
    ELSE SortPagesFrom(InsertByKey(sorted, Head(rest)), Tail(rest))

\* the pages left in the order collect_pages gives
SortByKey_FilenameOrder(ps) == ps

SortByKey(ps) == SortPagesFrom(<<>>, ps)

\* page_anchor_map[k] = anchor for every k of keys: the last page wins
SetDefaultAll_Overwrite(map, keys, anchor) ==
    [k \in DOMAIN map \cup keys |-> IF k \in keys THEN anchor ELSE map[k]]

\* page_anchor_map.setdefault(k, anchor) for every k of keys
SetDefaultAll(map, keys, anchor) ==
    [k \in DOMAIN map \cup keys |-> IF k \in DOMAIN map THEN map[k] ELSE anchor]

\* a toc line that targets the key of the title instead of its slug
TocEntry_KeyTarget(title) ==
    <<"-", " ", "[">> \o title \o <<"]", "(", "#">> \o normalize_key(title) \o <<")">>

\* the toc line f"- [{title}](#{anchor_slug(title)})"
TocEntry(title) ==
    <<"-", " ", "[">> \o title \o <<"]", "(", "#">> \o anchor_slug(title) \o <<")">>

\* the lines main puts before the entries; a fixed phrase is one element
TocHead ==
    IF variant = "concat"
    THEN << <<"# Wiki (Concatenated)", "\n">>,
            <<"_Source: local concatenation of wiki pages_", "\n">>,
            <<"\n", "---", "\n", "## Contents", "\n">> >>
    ELSE << <<"#", " ">> \o SplitChar(Repo, "/")[Len(SplitChar(Repo, "/"))]
               \o <<" compiled wiki pages", "\n">>,
            <<"_Self-contained version with ",
              IF embed THEN "embedded" ELSE "local", " images_", "\n">> >>
         \o (IF timestamp
             THEN << <<"\n", "## Version", "\n">>,
                     <<"This document was generated on ", "<timestamp>", "\n">> >>
             ELSE <<>>)

\* the toc main builds: concat_wiki.py lists the pages, wiki_standalone.py
\* leaves the contents to Pandoc
BuildTocLines(ps) ==
    IF variant = "concat"
    THEN TocHead \o [i \in DOMAIN ps |-> TocEntry(ps[i].title)] \o << <<>> >>
    ELSE TocHead

\* MD_IMG_RE needs "![" and HTML_IMG_RE needs "<img": a text with neither is
\* returned as it is by rewrite_markdown_images, rewrite_html_images and
\* process_images
ImageFree(text) ==
    /\ \A i \in DOMAIN text : text[i] # "<"
    /\ \A i \in 1..(Len(text) - 1) : ~(text[i] = "!" /\ text[i + 1] = "[")

\* the provenance note of a section
Provenance(stem) ==
    <<"\n", "\n", "<sub>Original page: [">> \o FileName(stem)
    \o <<"](", "https://github.com/">> \o Repo \o <<"/wiki/">> \o quote(stem)
    \o <<")</sub>", "\n">>

\* a section whose links are rewritten knowing the page's own keys only
SectionOf_OwnKeysOnly(p, map) ==
    LET own == SetDefaultAll(<<>>, build_page_keyset(p.title, p.stem),
                             anchor_slug(p.title))
        t   == rewrite_md_links_to_local(
                   rewrite_wiki_links_to_local(p.raw, own), own)
    IN <<"\n", "---", "\n">> \o RStrip(normalize_heading(p.title, t))
       \o Provenance(p.path)

\* the section main emits for page p: steps 1, 2, 4 and 5 of its loop
SectionOf(p, map) ==
    LET t == rewrite_md_links_to_local(
                 rewrite_wiki_links_to_local(p.raw, map), map)
    IN <<"\n", "---", "\n">> \o RStrip(normalize_heading(p.title, t))
       \o Provenance(p.path)

-----------------------------------------------------------------------------
(* process_images of wiki_standalone.py *)

Str_blob == <<"/", "b", "l", "o", "b", "/">>

Str_raw == <<"/", "r", "a", "w", "/">>

Str_github == <<"g", "i", "t", "h", "u", "b", ".", "c", "o", "m">>

\* str.replace(old, new) for a non-empty old
RECURSIVE Replace(_, _, _)
Replace(s, old, new) ==
    IF Len(s) < Len(old) THEN s
    ELSE IF StartsWith(s, old)
    THEN new \o Replace(Drop(s, Len(old)), old, new)
    ELSE <<Head(s)>> \o Replace(Tail(s), old, new)

github_blob_to_raw(url) ==
    IF Contains(url, Str_github) /\ Contains(url, Str_blob)
    THEN Replace(url, Str_blob, Str_raw)
    ELSE url

\* get_image_mime_type(url, data); a MIME type is one element
get_image_mime_type(url) ==
    LET u == Lower(url)
    IN IF EndsWith(u, <<".", "p", "n", "g">>) THEN <<"image/png">>
       ELSE IF EndsWith(u, <<".", "j", "p", "g">>)
               \/ EndsWith(u, <<".", "j", "p", "e", "g">>)
       THEN <<"image/jpeg">>
       ELSE IF EndsWith(u, <<".", "g", "i", "f">>) THEN <<"image/gif">>
       ELSE IF EndsWith(u, <<".", "s", "v", "g">>) THEN <<"image/svg+xml">>
       ELSE IF EndsWith(u, <<".", "w", "e", "b", "p">>) THEN <<"image/webp">>
       ELSE <<"image/png">>

\* f"https://raw.githubusercontent.com/{repo}.wiki/HEAD/"
RawWikiBase(repo) ==
    <<"h", "t", "t", "p", "s", ":", "/", "/", "r", "a", "w", ".", "g",
          "i", "t", "h", "u", "b", "u", "s", "e", "r", "c", "o", "n",
          "t", "e", "n", "t", ".", "c", "o", "m", "/">>
    \o repo \o <<".", "w", "i", "k", "i", "/", "H", "E", "A", "D", "/">>

to_raw_wiki_url(repo, path_like) ==
    LET s == Strip(path_like)
    IN IF Len(s) >= 2 /\ Head(s) \in {"'", "\""} /\ s[Len(s)] \in {"'", "\""}
       THEN RawWikiBase(repo) \o quote(SubSeq(s, 2, Len(s) - 1))
       ELSE RawWikiBase(repo)
            \o quote(LStripChars(BeforeChar(s, " "), {".", "/"}))

\* urlparse(url).path for a url that has a scheme and a host
UrlPath(url) ==
    LET rest == Drop(url, IF StartsWith(url, Str_https) THEN Len(Str_https)
                          ELSE Len(Str_http))
        p    == Drop(rest, RunNot(rest, {"/", "?", "#"}))
    IN Take(p, RunNot(p, {"?", "#"}))

IsHex(c) == IsDigit(c) \/ c \in {"A", "B", "C", "D", "E", "F",
                                 "a", "b", "c", "d", "e", "f"}

HexVal(c) ==
    IF IsDigit(c) THEN DigitVal(c)
    ELSE IF IsUpperAZ(c) THEN Code(c) - 55 ELSE Code(c) - 87

\* urllib.parse.unquote(s): %XX becomes the character of that code (the
\* printable ASCII characters are the ones of this alphabet)
RECURSIVE unquote(_)
unquote(s) ==
    IF s = <<>> THEN <<>>
    ELSE IF /\ Head(s) = "%" /\ Len(s) >= 3 /\ IsHex(s[2]) /\ IsHex(s[3])
            /\ 16 * HexVal(s[2]) + HexVal(s[3]) \in 32..126
    THEN <<Ascii[16 * HexVal(s[2]) + HexVal(s[3]) - 31]>> \o unquote(Drop(s, 3))
    ELSE <<Head(s)>> \o unquote(Tail(s))

\* str(n)
RECURSIVE DecimalOf(_)
DecimalOf(n) ==
    IF n < 10 THEN <<HexDigits[n + 1]>>
    ELSE DecimalOf(n \div 10) \o <<HexDigits[(n % 10) + 1]>>

Str_images == <<"i", "m", "a", "g", "e", "s", "/">>

\* image_cache[full_url] = value
CachePut(cache, full_url, value) ==
    [k \in DOMAIN cache \cup {full_url} |->
        IF k = full_url THEN value ELSE cache[k]]

\* what one call of process_img does: the URL it returns, the cache and the
\* images directory it leaves, the URLs it fetched, whether it raised, and
\* whether it fetched without getting an image
ImgResult(ret, cache, files, fetched, raised, nodata) ==
    [ret |-> ret, cache |-> cache, files |-> files, fetched |-> fetched,
     raised |-> raised, nodata |-> nodata]

\* process_img from "if embed:" on, for the reference url resolved to
\* full_url; has_data is whether img_data holds an image (it is None
\* otherwise); base64.b64encode(None) and write_bytes(None) raise TypeError
StoreImage(url, full_url, has_data, emb, dir, cache, files, fetched) ==
    IF emb
    THEN IF ~has_data
         THEN ImgResult(url, cache, files, fetched, TRUE, TRUE)
         ELSE LET new_url == Str_data \o get_image_mime_type(full_url)
                             \o <<";base64,", "<b64 of the image>">>
              IN ImgResult(new_url, CachePut(cache, full_url, new_url),
                           files, fetched, FALSE, FALSE)
    ELSE IF dir = None
    THEN ImgResult(url, CachePut(cache, full_url, url), files, fetched,
                   FALSE, ~has_data)
    ELSE LET name     == PathName(UrlPath(full_url))
             filename == unquote(IF name = <<>>
                                 THEN <<"i", "m", "a", "g", "e", "_">>
                                      \o DecimalOf(Cardinality(DOMAIN cache))
                                      \o <<".", "p", "n", "g">>
                                 ELSE name)
             new_url  == Str_images \o filename
         IN IF filename \notin files /\ ~has_data
            THEN ImgResult(url, cache, files, fetched, TRUE, TRUE)
            ELSE ImgResult(new_url, CachePut(cache, full_url, new_url),
                           files \cup {filename}, fetched, FALSE, ~has_data)

\* process_img(url); d1 and d2 are whether the first and the second call of
\* download_image return an image
process_img(url, emb, dir, cache, files, d1, d2) ==
    LET url_clean == StripChars(BeforeChar(url, " "), {" ", "\"", "'"})
        special   == is_absolute_or_special(url_clean)
        full_url  == IF special THEN github_blob_to_raw(url_clean)
                     ELSE to_raw_wiki_url(Repo, url)
        raw_url   == github_blob_to_raw(full_url)
    IN IF special /\ ~StartsWith(url_clean, <<"h", "t", "t", "p">>)
       THEN ImgResult(url, cache, files, <<>>, FALSE, FALSE)
       ELSE IF full_url \in DOMAIN cache
       THEN ImgResult(cache[full_url], cache, files, <<>>, FALSE, FALSE)
       ELSE IF d1
       THEN StoreImage(url, full_url, TRUE, emb, dir, cache, files,
                       <<full_url>>)
       ELSE IF ~Contains(full_url, Str_blob)
       THEN ImgResult(url, CachePut(cache, full_url, url), files,
                      <<full_url>>, FALSE, TRUE)
       ELSE IF raw_url = full_url
       THEN StoreImage(url, full_url, FALSE, emb, dir, cache, files,
                       <<full_url>>)
       ELSE IF d2
       THEN StoreImage(url, raw_url, TRUE, emb, dir, cache, files,
                       <<full_url, raw_url>>)
       ELSE ImgResult(url, CachePut(cache, full_url, url), files,
                      <<full_url, raw_url>>, FALSE, TRUE)

\* a markdown image and an HTML image
MdImage(alt, url) == <<"!", "[">> \o alt \o <<"]", "(">> \o url \o <<")">>

SrcAttr(url) == <<"s", "r", "c", "=", "\"">> \o url \o <<"\"">>

HtmlImage(url) == <<"<", "i", "m", "g", " ">> \o SrcAttr(url) \o <<">">>

\* the text of a reference
RefText(r) ==
    IF r.kind = "md" THEN MdImage(r.alt, r.url) ELSE HtmlImage(r.url)

\* the URL repl_md and repl_html give to process_img
RefToken(r) == IF r.kind = "md" THEN Strip(r.url) ELSE r.url

\* what repl_md and repl_html return for the reference r and the URL
\* process_img returned
EmitRef(r, new_url) ==
    IF r.kind = "md" THEN MdImage(r.alt, new_url)
    ELSE Replace(RefText(r), SrcAttr(r.url), SrcAttr(new_url))

\* a relative URL and a URL of another host whose path holds /blob/
Url_Relative == <<".", "/", "x", ".", "p", "n", "g">>

Url_OtherHostBlob ==
    <<"h", "t", "t", "p", "s", ":", "/", "/", "h", ".", "i", "o", "/",
      "b", "l", "o", "b", "/", "x", ".", "p", "n", "g">>

\* The URL texts image references are written with
ImageUrls ==
    { <<"x", ".", "p", "n", "g">>,
      Url_Relative,
      <<"x", ".", "p", "n", "g", " ", "\"", "t", "\"">>,
      <<"b", "l", "o", "b", "/", "x", ".", "p", "n", "g">>,
      <<"h", "t", "t", "p", "s", ":", "/", "/", "g", "i", "t", "h", "u",
            "b", ".", "c", "o", "m", "/", "o", "/", "r", "/", "b", "l",
            "o", "b", "/", "m", "/", "x", ".", "p", "n", "g">>,
      <<"h", "t", "t", "p", "s", ":", "/", "/", "g", "i", "t", "h", "u",
            "b", ".", "c", "o", "m", "/", "b", "l", "o", "b", "/", "b",
            "l", "o", "b", "/", "x", ".", "p", "n", "g">>,
      <<"h", "t", "t", "p", "s", ":", "/", "/", "h", ".", "i", "o", "/",
            "b", "l", "o", "b", "/", "x", ".", "p", "n", "g">>,
      <<"h", "t", "t", "p", "s", ":", "/", "/", "h", ".", "i", "o", "/",
            "a", "%", "2", "0", "b", ".", "J", "P", "G">>,
      <<"d", "a", "t", "a", ":", "x">> }

\* The image references of a run: every URL as a markdown image, two of
\* them as HTML images too
ImageRefs ==
    { [kind |-> "md", alt |-> <<"x">>, url |-> u] : u \in ImageUrls }
    \cup { [kind |-> "html", alt |-> <<>>, url |-> u] :
              u \in {Url_Relative, Url_OtherHostBlob} }

\* no call of download_image is modelled
DlIdle ==
    /\ d_url = <<>> /\ d_requests = <<>> /\ d_responses = <<>>
    /\ d_result = <<>> /\ d_pc = "idle"

ImgIdle ==
    /\ embed = FALSE /\ images_dir = None /\ img_files = {}
    /\ img_refs = <<>> /\ image_cache = <<>> /\ img_out = <<>>
    /\ img_fetched = <<>> /\ img_nodata = {} /\ img_pc = "idle"
    /\ img_idx = 1

\* main of wiki_standalone.py creates the images directory unless it embeds;
\* the directory may hold files of an earlier run
ImgInit ==
    /\ embed \in BOOLEAN
    /\ images_dir = (IF embed THEN None ELSE <<"images">>)
    /\ img_files \in (IF embed THEN {{}} ELSE {{}, {<<"x", ".", "p", "n", "g">>}})
    /\ img_refs \in UNION {[1..n -> ImageRefs] : n \in 1..MaxRefs}
    /\ image_cache = <<>>
    /\ img_out = <<>>
    /\ img_fetched = <<>>
    /\ img_nodata = {}
    /\ img_pc = "run"
    /\ img_idx = 1

\* process_img on the next reference, with the outcomes d1 and d2 of its
\* calls of download_image; a TypeError it raises ends the run
ProcessImg ==
    /\ img_pc = "run"
    /\ \E d1, d2 \in BOOLEAN :
         LET r   == img_refs[img_idx]
             res == process_img(RefToken(r), embed, images_dir, image_cache,
                                img_files, d1, d2)
         IN /\ img_fetched' = img_fetched \o res.fetched
            /\ img_nodata' = (IF res.nodata THEN img_nodata \cup {img_idx}
                              ELSE img_nodata)
            /\ IF res.raised
               THEN /\ img_pc' = "raised"
                    /\ UNCHANGED <<image_cache, img_files, img_out, img_idx>>
               ELSE /\ image_cache' = res.cache
                    /\ img_files' = res.files
                    /\ img_out' = Append(img_out, EmitRef(r, res.ret))
                    /\ img_idx' = img_idx + 1
                    /\ img_pc' = (IF img_idx = Len(img_refs) THEN "done"
                                  ELSE "run")
    /\ UNCHANGED <<mainVars, headVars, linkVars, slugVars, dlVars, embed, images_dir,
                   img_refs>>

-----------------------------------------------------------------------------
(* main() as a state machine *)

HeadIdle ==
    /\ h_title = <<>> /\ h_content = <<>> /\ h_demoted = <<>>
    /\ h_once = <<>> /\ h_twice = <<>> /\ h_pc = "idle"

LinkIdle ==
    /\ l_text = <<>> /\ l_map = <<>> /\ l_once = <<>> /\ l_twice = <<>>
    /\ l_pc = "idle"

SlugIdle ==
    /\ s_title = <<>> /\ s_slug = <<>> /\ s_page = <<>> /\ s_map = <<>>
    /\ s_entry = <<>>
    /\ s_pc = "idle"

MainIdle ==
    /\ timestamp = FALSE /\ wiki_dir = <<>> /\ pages = <<>>
    /\ page_anchor_map = <<>> /\ toc = <<>> /\ output_sections = <<>>
    /\ out_file = <<>> /\ pc = "idle" /\ idx = 1

MainInit ==
    /\ variant \in {"concat", "standalone"}
    /\ timestamp \in (IF variant = "concat" THEN {FALSE} ELSE BOOLEAN)
    /\ \E d \in SUBSET Stems : \E t \in Texts :
          /\ Cardinality(d) <= MaxPages
          /\ wiki_dir = [f \in d |-> t]
    /\ pages = <<>>
    /\ page_anchor_map = <<>>
    /\ toc = <<>>
    /\ output_sections = <<>>
    /\ out_file = <<>>
    /\ pc = "load"
    /\ idx = 1

\* first pass: read all pages, compute titles and orders
LoadPages ==
    /\ pc = "load"
    /\ pages' = [i \in DOMAIN collect_pages(wiki_dir) |->
                    PageOf(collect_pages(wiki_dir)[i],
                           wiki_dir[collect_pages(wiki_dir)[i]])]
    /\ pc' = "sort"
    /\ UNCHANGED <<headVars, linkVars, slugVars, imgVars, dlVars, variant, timestamp, wiki_dir, page_anchor_map, toc,
                   output_sections, out_file, idx>>

\* pages.sort(key=lambda x: extract_sort_key(x["path"].stem))
SortPages ==
    /\ pc = "sort"
    /\ pages' = SortByKey(pages)
    /\ pc' = IF pages = <<>> THEN "toc" ELSE "anchors"
    /\ idx' = 1
    /\ UNCHANGED <<headVars, linkVars, slugVars, imgVars, dlVars, variant, timestamp, wiki_dir, page_anchor_map, toc,
                   output_sections, out_file>>

\* one iteration of the loop that builds the anchor map
RegisterPage ==
    /\ pc = "anchors"
    /\ page_anchor_map' =
          SetDefaultAll(page_anchor_map,
                        build_page_keyset(pages[idx].title, pages[idx].stem),
                        anchor_slug(pages[idx].title))
    /\ IF idx = Len(pages)
       THEN pc' = "toc" /\ idx' = 1
       ELSE pc' = pc /\ idx' = idx + 1
    /\ UNCHANGED <<headVars, linkVars, slugVars, imgVars, dlVars, variant, timestamp, wiki_dir, pages, toc, output_sections,
                   out_file>>

\* the toc, appended as the first section
BuildToc ==
    /\ pc = "toc"
    /\ toc' = BuildTocLines(pages)
    /\ output_sections' = <<Join(BuildTocLines(pages), <<"\n">>)>>
    /\ pc' = IF pages = <<>> THEN "write" ELSE "transform"
    /\ idx' = 1
    /\ UNCHANGED <<headVars, linkVars, slugVars, imgVars, dlVars, variant, timestamp, wiki_dir, pages, page_anchor_map,
                   out_file>>

\* one iteration of the second pass
TransformPage ==
    /\ pc = "transform"
    /\ ImageFree(rewrite_wiki_links_to_local(pages[idx].raw, page_anchor_map))
    /\ output_sections' =
          Append(output_sections, SectionOf(pages[idx], page_anchor_map))
    /\ IF idx = Len(pages)
       THEN pc' = "write" /\ idx' = 1
       ELSE pc' = pc /\ idx' = idx + 1
    /\ UNCHANGED <<headVars, linkVars, slugVars, imgVars, dlVars, variant, timestamp, wiki_dir, pages, page_anchor_map, toc,
                   out_file>>

\* out_path.write_text("\n".join(output_sections) + "\n")
WriteOut ==
    /\ pc = "write"
    /\ out_file' = Join(output_sections, <<"\n">>) \o <<"\n">>
    /\ pc' = "done"
    /\ UNCHANGED <<headVars, linkVars, slugVars, imgVars, dlVars, variant, timestamp, wiki_dir, pages, page_anchor_map, toc,
                   output_sections, idx>>

MainNext ==
    \/ LoadPages
    \/ SortPages
    \/ RegisterPage
    \/ BuildToc
    \/ TransformPage
    \/ WriteOut

Init == MainInit /\ HeadIdle /\ LinkIdle /\ SlugIdle /\ ImgIdle /\ DlIdle

Next == MainNext

Spec == Init /\ [][Next]_vars

-----------------------------------------------------------------------------
(* Heading normalization of one text.  convert_setext_to_atx,
   demote_atx_headings_outside_code and normalize_heading read the same in
   concat_wiki.py and wiki_standalone.py *)

\* The lines a text is written with
LineSamples ==
    { <<"#", " ", "a">>,
      <<"#", "#", "#", " ", "a">>,
      <<"#", "#", "#", "#", "#", "#", " ", "a">>,
      <<"#", "#", "#", "#", "#", "#", "#", " ", "a">>,
      <<"#", " ", "a", " ">>,
      <<" ", "#", " ", "a">>,
      <<"a">>,
      <<>>,
      <<Backtick, Backtick, Backtick>>,
      <<" ", "~", "~", "~">>,
      <<"=", "=", "=">>,
      <<"-", "-", "-">> }

\* The texts: up to MaxLines lines joined by line breaks
Contents ==
    { Join(ls, <<"\n">>) :
        ls \in UNION {[1..n -> LineSamples] : n \in 0..MaxLines} }

HeadInit ==
    /\ h_title = <<"T">>
    /\ h_content \in Contents
    /\ h_demoted = <<>>
    /\ h_once = <<>>
    /\ h_twice = <<>>
    /\ h_pc = "start"

Demote ==
    /\ h_pc = "start"
    /\ h_demoted' = demote_atx_headings_outside_code(h_content)
    /\ h_pc' = "demoted"
    /\ UNCHANGED <<mainVars, linkVars, slugVars, imgVars, dlVars, h_title, h_content,
                   h_once, h_twice>>

Normalize ==
    /\ h_pc = "demoted"
    /\ h_once' = normalize_heading(h_title, h_content)
    /\ h_pc' = "once"
    /\ UNCHANGED <<mainVars, linkVars, slugVars, imgVars, dlVars, h_title, h_content,
                   h_demoted, h_twice>>

NormalizeAgain ==
    /\ h_pc = "once"
    /\ h_twice' = normalize_heading(h_title, h_once)
    /\ h_pc' = "twice"
    /\ UNCHANGED <<mainVars, linkVars, slugVars, imgVars, dlVars, h_title, h_content,
                   h_demoted, h_once>>

HeadNext ==
    \/ Demote
    \/ Normalize
    \/ NormalizeAgain

InitHeading ==
    /\ variant = "concat" /\ MainIdle /\ LinkIdle /\ SlugIdle /\ ImgIdle
    /\ DlIdle
    /\ HeadInit

SpecHeading == InitHeading /\ [][HeadNext]_vars

-----------------------------------------------------------------------------
(* The two link rewrites applied twice under the anchor map of two pages *)

\* the loop of main that builds the anchor map, over the pages ps
RECURSIVE AnchorMapFrom(_, _)
AnchorMapFrom(map, ps) ==
    IF ps = <<>> THEN map
    ELSE AnchorMapFrom(
             SetDefaultAll(map, build_page_keyset(Head(ps).title, Head(ps).stem),
                           anchor_slug(Head(ps).title)),
             Tail(ps))

\* The stems of the pages the anchor map is built from, in filename order
LinkStems == << <<"0", "1", "-", "A">>, <<"0", "2", "-", "0", "1", "-", "A">> >>

\* The pieces a text is written with
LinkTokens ==
    { <<"[", "[", "0", "2", "-", "0", "1", "-", "A">>,
      <<"|", "L">>,
      <<"]", "]">>,
      <<"[", "L">>,
      <<"]", "(", "0", "2", "-", "0", "1", "-", "A", ")">>,
      <<"!">>,
      <<"[">> }

\* The texts: up to MaxTokens pieces, concatenated
LinkTexts ==
    { Join(ts, <<>>) :
        ts \in UNION {[1..n -> LinkTokens] : n \in 0..MaxTokens} }

\* step 1 and step 2 of the second pass of main
RewriteLinks(text, map) ==
    rewrite_md_links_to_local(rewrite_wiki_links_to_local(text, map), map)

LinkInit ==
    /\ l_map = AnchorMapFrom(<<>>, SortByKey(<<PageOf(LinkStems[1], <<>>),
                                               PageOf(LinkStems[2], <<>>)>>))
    /\ l_text \in LinkTexts
    /\ l_once = <<>>
    /\ l_twice = <<>>
    /\ l_pc = "start"

Rewrite ==
    /\ l_pc = "start"
    /\ l_once' = RewriteLinks(l_text, l_map)
    /\ l_pc' = "once"
    /\ UNCHANGED <<mainVars, headVars, slugVars, imgVars, dlVars, l_text, l_map,
                   l_twice>>

RewriteAgain ==
    /\ l_pc = "once"
    /\ l_twice' = RewriteLinks(l_once, l_map)
    /\ l_pc' = "twice"
    /\ UNCHANGED <<mainVars, headVars, slugVars, imgVars, dlVars, l_text, l_map,
                   l_once>>

LinkNext ==
    \/ Rewrite
    \/ RewriteAgain

InitLinks ==
    /\ variant \in {"concat", "standalone"}
    /\ MainIdle /\ HeadIdle /\ SlugIdle /\ ImgIdle /\ DlIdle
    /\ LinkInit

SpecLinks == InitLinks /\ [][LinkNext]_vars

-----------------------------------------------------------------------------
(* The anchor of one string, taken as a title and as the stem of a page *)

\* The characters a string is written with
SlugAlphabet == {"A", "b", "1", "-", " ", "+", Hyphen2010}

\* The strings: up to MaxTitleLen characters
Titles == UNION {[1..n -> SlugAlphabet] : n \in 0..MaxTitleLen}

SlugInit ==
    /\ s_title \in Titles
    /\ s_slug = <<>>
    /\ s_page = <<>>
    /\ s_map = <<>>
    /\ s_entry = <<>>
    /\ s_pc = "start"

\* anchor_slug(s_title)
SlugTitle ==
    /\ s_pc = "start"
    /\ s_slug' = anchor_slug(s_title)
    /\ s_pc' = "slug"
    /\ UNCHANGED <<mainVars, headVars, linkVars, imgVars, dlVars, s_title, s_page,
                   s_map, s_entry>>

\* what main does with a file whose stem is s_title: the page record, its
\* registration in an empty anchor map, its line of the table of contents
AnchorPage ==
    /\ s_pc = "slug"
    /\ s_page' = PageOf(s_title, <<>>)
    /\ s_map' = AnchorMapFrom(<<>>, <<PageOf(s_title, <<>>)>>)
    /\ s_entry' = TocEntry(PageOf(s_title, <<>>).title)
    /\ s_pc' = "page"
    /\ UNCHANGED <<mainVars, headVars, linkVars, imgVars, dlVars, s_title, s_slug>>

SlugNext ==
    \/ SlugTitle
    \/ AnchorPage

InitSlug ==
    /\ variant \in {"concat", "standalone"}
    /\ MainIdle /\ HeadIdle /\ LinkIdle /\ ImgIdle /\ DlIdle
    /\ SlugInit

SpecSlug == InitSlug /\ [][SlugNext]_vars

-----------------------------------------------------------------------------
(* The image references of one run of wiki_standalone.py *)

ImgNext == ProcessImg

InitImages ==
    /\ variant = "standalone" /\ MainIdle /\ HeadIdle /\ LinkIdle /\ SlugIdle
    /\ DlIdle
    /\ ImgInit

SpecImages == InitImages /\ [][ImgNext]_vars

-----------------------------------------------------------------------------
(* One top-level call of download_image of wiki_standalone.py *)

\* the calls of urlopen followed in one top-level call
MaxCalls == 4

Str_recursion_depth ==
    <<"_", "r", "e", "c", "u", "r", "s", "i", "o", "n", "_", "d", "e", "p",
      "t", "h">>

\* the suffix download_image puts on the URL it calls itself with
RecursionSuffix == <<"?">> \o Str_recursion_depth \o <<"=", "1">>

\* url.startswith('http')
StartsHttp(url) == StartsWith(url, <<"h", "t", "t", "p">>)

\* f"{parsed.scheme}://{parsed.netloc}" of urlparse(url), url an http(s) URL
UrlOrigin(url) ==
    LET n == IF StartsWith(url, Str_https) THEN Len(Str_https)
             ELSE Len(Str_http)
    IN Take(url, n + RunNot(Drop(url, n), {"/", "?", "#"}))

\* A response is what urlopen and read give for one request: the
\* Content-Type header in pieces, what the data starts with (kind), and for
\* an HTML document the content of its og:image meta tag and the src of its
\* first img tag (None when it has none).  kind "raised" stands for any
\* exception of urlopen or read
Failure == [ctype |-> <<>>, kind |-> "raised", og |-> None, img |-> None]

ContentTypes ==
    { <<"text/html", "; charset=utf-8">>,
      <<"application/xhtml", "+xml">>,
      <<"image/", "png">>,
      <<"text/plain">>,
      <<>> }

Url_GithubBlob ==
    <<"h", "t", "t", "p", "s", ":", "/", "/", "g", "i", "t", "h", "u", "b",
      ".", "c", "o", "m", "/", "o", "/", "r", "/", "b", "l", "o", "b", "/",
      "m", "/", "x", ".", "p", "n", "g">>

Url_Plain == <<"h", "t", "t", "p", "s", ":", "/", "/", "h", ".", "i", "o",
               "/", "i", ".", "p", "n", "g">>

\* the og:image contents and the img src values of an HTML document
OgContents == {None, Url_GithubBlob, Url_Plain, <<"x", ".", "p", "n", "g">>}

ImgSrcs == {None, Url_Plain, <<"/", "i", "/", "x", ".", "p", "n", "g">>,
            <<"i", "/", "x", ".", "p", "n", "g">>}

Responses ==
    {Failure}
    \cup { [ctype |-> c, kind |-> k, og |-> None, img |-> None] :
              c \in ContentTypes, k \in {"png", "svg", "xml", "text"} }
    \cup { [ctype |-> c, kind |-> "doctype", og |-> o, img |-> i] :
              c \in ContentTypes, o \in OgContents, i \in ImgSrcs }

\* is_html of download_image: by the Content-Type or by the start of the data
is_html(r) ==
    \/ \E i \in DOMAIN r.ctype : r.ctype[i] \in {"text/html", "application/xhtml"}
    \/ r.kind \in {"doctype", "xml"}

\* content_type.startswith('image/')
IsImageType(r) == r.ctype # <<>> /\ r.ctype[1] = "image/"

\* the data starts with one of image_signatures
HasImageSignature(r) == r.kind \in {"png", "svg", "xml"}

\* extract_image_from_html(data, base_url): the og:image content first, the
\* src of the first img tag otherwise
extract_image_from_html(r, base_url) ==
    IF r.og # None
    THEN IF StartsHttp(r.og) THEN github_blob_to_raw(r.og) ELSE r.og
    ELSE IF r.img # None
    THEN IF StartsWith(r.img, <<"/">>)
         THEN github_blob_to_raw(UrlOrigin(base_url) \o r.img)
         ELSE IF ~StartsHttp(r.img) THEN None
         ELSE github_blob_to_raw(r.img)
    ELSE None

\* a depth guard that lets every call follow the HTML page it gets
RecursionAllowed_Always(url) == TRUE

\* if '_recursion_depth' not in url
RecursionAllowed(url) == ~Contains(url, Str_recursion_depth)

\* what download_image returns when it has image data
ImageData == <<"<data>">>

\* The URLs of the top-level call
TopUrls ==
    { Url_Plain, Url_GithubBlob,
      <<"h", "t", "t", "p", "s", ":", "/", "/", "h", ".", "i", "o", "/",
        "_", "r", "e", "c", "u", "r", "s", "i", "o", "n", "_", "d", "e",
        "p", "t", "h">> }

DlInit ==
    /\ d_url \in TopUrls
    /\ d_requests = <<>>
    /\ d_responses = <<>>
    /\ d_result = <<>>
    /\ d_pc = "call"

\* urlopen or read raises: the except clause returns None
RequestFails ==
    /\ d_pc = "call"
    /\ Len(d_requests) < MaxCalls
    /\ d_requests' = Append(d_requests, d_url)
    /\ d_responses' = Append(d_responses, Failure)
    /\ d_result' = None
    /\ d_pc' = "returned"
    /\ UNCHANGED <<mainVars, headVars, linkVars, slugVars, imgVars, d_url>>

\* the response is taken for an HTML page: download_image calls itself with
\* the image URL extracted from it when there is one and the depth guard
\* allows it, and returns None otherwise
ResponseHtml ==
    /\ d_pc = "call"
    /\ Len(d_requests) < MaxCalls
    /\ StartsHttp(d_url)
    /\ \E r \in Responses :
         /\ r.kind # "raised"
         /\ is_html(r)
         /\ d_requests' = Append(d_requests, d_url)
         /\ d_responses' = Append(d_responses, r)
         /\ LET img_url == extract_image_from_html(r, d_url)
            IN IF Truthy(img_url) /\ RecursionAllowed(d_url)
               THEN /\ d_url' = img_url \o RecursionSuffix
                    /\ UNCHANGED <<d_result, d_pc>>
               ELSE /\ d_result' = None
                    /\ d_pc' = "returned"
                    /\ UNCHANGED d_url
    /\ UNCHANGED <<mainVars, headVars, linkVars, slugVars, imgVars>>

\* any other response: the data is returned when the content type is an
\* image type and the data starts with an image signature
ResponseOther ==
    /\ d_pc = "call"
    /\ Len(d_requests) < MaxCalls
    /\ StartsHttp(d_url)
    /\ \E r \in Responses :
         /\ r.kind # "raised"
         /\ ~is_html(r)
         /\ d_requests' = Append(d_requests, d_url)
         /\ d_responses' = Append(d_responses, r)
         /\ d_result' = (IF IsImageType(r) /\ HasImageSignature(r)
                         THEN ImageData ELSE None)
         /\ d_pc' = "returned"
    /\ UNCHANGED <<mainVars, headVars, linkVars, slugVars, imgVars, d_url>>

DlNext ==
    \/ RequestFails
    \/ ResponseHtml
    \/ ResponseOther

InitDownload ==
    /\ variant = "standalone" /\ MainIdle /\ HeadIdle /\ LinkIdle /\ SlugIdle
    /\ ImgIdle
    /\ DlInit

\* Every request ends: urlopen is given timeout=10 and any exception is
\* caught, so a call that is running takes its next step
SpecDownload == InitDownload /\ [][DlNext]_vars /\ WF_vars(DlNext)

-----------------------------------------------------------------------------
(* Properties of main(): page order, anchor map, links, table of contents *)

\* the anchor map has been built from every page
MapComplete == pc \in {"toc", "transform", "write", "done"}

\* the pages have been sorted
Sorted == pc \in {"anchors", "toc", "transform", "write", "done"}

KeysOf(p) == build_page_keyset(p.title, p.stem)

\* the first page in sort order that registers key k (0 when none does)
FirstRegistrant(ps, k) ==
    IF \E i \in DOMAIN ps : k \in KeysOf(ps[i])
    THEN CHOOSE i \in DOMAIN ps :
            /\ k \in KeysOf(ps[i])
            /\ \A j \in 1..(i - 1) : k \notin KeysOf(ps[j])
    ELSE 0

\* the section of page i has been emitted
Emitted(i) == i \in DOMAIN pages /\ i + 1 \in DOMAIN output_sections

\* page i's text is the reference of probe pr, and its section is emitted
EmittedProbe(i, pr) == Emitted(i) /\ pages[i].raw = InText(ProbeRef(pr))

\* the label a rewritten wiki reference shows
ShownLabel(pr) == IF pr.label = None THEN Strip(pr.target) ELSE pr.label

\* C1 as stated: a reference [[Page|Label]] (or [[Page]]) whose Page is the
\* title of a loaded page P is replaced by [Label](#a) (or [Page](#a)) with a
\* the anchor slug of that same page P.
C1_RefToTitleGetsOwnAnchor ==
    \A i \in DOMAIN pages : \A pr \in Probes : \A j \in DOMAIN pages :
      (EmittedProbe(i, pr) /\ pr.kind = "wiki" /\ pages[j].title = pr.target)
      => Contains(output_sections[i + 1],
                  InText(LocalLink(ShownLabel(pr), anchor_slug(pages[j].title))))

\* C1 amended: a reference [[Page|Label]] (or [[Page]]) whose Page is the
\* title of a loaded page P is replaced by [Label](#a) (or [Page](#a)), Label
\* stripped of surrounding blanks, where a is the anchor slug of the first
\* page in sort order that registers the normalized key of Page (P itself
\* unless an earlier page registers it); when a is empty the reference is
\* left as it is.
C1_RefToTitleGetsFirstRegistrantAnchor ==
    \A i \in DOMAIN pages : \A pr \in Probes : \A j \in DOMAIN pages :
      (EmittedProbe(i, pr) /\ pr.kind = "wiki" /\ pages[j].title = pr.target)
      => LET first == FirstRegistrant(pages, normalize_key(pages[j].title))
             a     == anchor_slug(pages[first].title)
         IN /\ first \in 1..j
            /\ Contains(output_sections[i + 1],
                        InText(IF a # <<>>
                               THEN LocalLink(Strip(ShownLabel(pr)), a)
                               ELSE ProbeRef(pr)))

\* C1 witness: the run is over, an earlier page had registered the key of a
\* later page's title under another anchor, and the reference to that title
\* in a page text was rewritten to the earlier page's anchor.
C1_Witness ==
    /\ pc = "done"
    /\ \E i, j \in DOMAIN pages :
         /\ i < j
         /\ normalize_key(pages[j].title) \in KeysOf(pages[i])
         /\ anchor_slug(pages[i].title) # anchor_slug(pages[j].title)
         /\ pages[1].raw = InText(WikiLink(pages[j].title))
         /\ Contains(output_sections[2],
                     LocalLink(pages[j].title, anchor_slug(pages[i].title)))

\* the name a reference is looked up by: the target of a wiki reference,
\* the page name read from the target of a markdown link
ProbeName(pr) ==
    IF pr.kind = "md" THEN MdTargetName(Strip(pr.target)) ELSE Strip(pr.target)

PrefixLen(stem) ==
    IF Len(stem) >= 2 /\ IsDigit(stem[1]) /\ IsDigit(stem[2])
    THEN IF Len(stem) = 2 \/ ~IsWord(stem[3]) THEN 2
         ELSE IF IsLetter(stem[3]) /\ (Len(stem) = 3 \/ ~IsWord(stem[4]))
         THEN 3 ELSE 0
    ELSE 0

PrefixNumber(stem) == 10 * DigitVal(stem[1]) + DigitVal(stem[2])

PrefixLetter(stem) ==
    IF PrefixLen(stem) = 3 THEN <<LowerChar(stem[3])>> ELSE <<>>

Registered ==
    IF pc = "anchors" THEN idx - 1
    ELSE IF MapComplete THEN Len(pages) ELSE 0

\* C4: the anchor map is built by insert-if-absent in page sort order: at
\* every point of the run its keys are the keys of the pages processed so
\* far and each key maps to the anchor of the first page in sort order that
\* registers it, so that no later page's registration changes a key that is
\* present; after the last page this holds of all pages.
C4_FirstRegistrationWins ==
    LET keys   == [i \in 1..Registered |-> KeysOf(pages[i])]
        anchor == [i \in 1..Registered |-> anchor_slug(pages[i].title)]
    IN /\ DOMAIN page_anchor_map = UNION {keys[i] : i \in DOMAIN keys}
       /\ \A k \in DOMAIN page_anchor_map :
             \E i \in DOMAIN keys :
                /\ k \in keys[i]
                /\ \A j \in 1..(i - 1) : k \notin keys[j]
                /\ page_anchor_map[k] = anchor[i]

\* C4 witness: the map is complete and a key that two pages with different
\* anchors register maps to the earlier page's anchor.
C4_Witness ==
    /\ MapComplete
    /\ \E i, j \in DOMAIN pages : \E k \in DOMAIN page_anchor_map :
         /\ i < j
         /\ k \in KeysOf(pages[i]) \cap KeysOf(pages[j])
         /\ anchor_slug(pages[i].title) # anchor_slug(pages[j].title)
         /\ FirstRegistrant(pages, k) = i
         /\ page_anchor_map[k] = anchor_slug(pages[i].title)

\* the entry lines of a table of contents
TocEntries(lines) == SelectSeq(lines, LAMBDA l : StartsWith(l, <<"-", " ", "[">>))

\* the entry the claim describes for a page title
ExpectedEntry(title) ==
    <<"-", " ">> \o LocalLink(title, anchor_slug(title))

TocBuilt == pc \in {"transform", "write", "done"}

\* C10 as stated: in both script variants the table of contents has exactly
\* one entry per loaded page, in sort order, labeled with the title and
\* targeting # followed by the anchor slug of the title.
C10_TocListsPagesBothVariants ==
    TocBuilt => TocEntries(toc) = [i \in DOMAIN pages |-> ExpectedEntry(pages[i].title)]

\* C10 amended: the document assembled by concat_wiki.py has a table of
\* contents with exactly one entry per loaded page, in sort order, labeled
\* with the title and targeting # followed by the anchor slug of the title,
\* and the table is the first section of the output; wiki_standalone.py
\* emits no entry at all.
C10_TocListsPagesConcatOnly ==
    TocBuilt =>
      /\ output_sections[1] = Join(toc, <<"\n">>)
      /\ variant = "concat" =>
           TocEntries(toc) = [i \in DOMAIN pages |-> ExpectedEntry(pages[i].title)]
      /\ variant = "standalone" => TocEntries(toc) = <<>>
      /\ pc = "done" =>
           StartsWith(out_file, Join(toc, <<"\n">>))

\* C10 witness: concat_wiki.py has finished on a directory with an ignored
\* file and at least two loaded pages that the sort reordered.
C10_Witness ==
    /\ pc = "done"
    /\ variant = "concat"
    /\ <<"H", "o", "m", "e">> \in DOMAIN wiki_dir
    /\ Len(TocEntries(toc)) >= 2
    /\ \E i \in 1..(Len(pages) - 1) :
          StrLess(FileName(pages[i + 1].path), FileName(pages[i].path))

\* C15 as stated: after main sorts the pages, two pages with the same sort
\* key (equal number and letter, or no numeric prefix) stand in the order of
\* the case-insensitive comparison of their filenames.
C15_TiesByCaseInsensitiveFilename ==
    Sorted =>
      \A i, j \in DOMAIN pages :
         (i < j /\ extract_sort_key(pages[i].path) = extract_sort_key(pages[j].path))
         => ~StrLess(Lower(FileName(pages[j].path)),
                     Lower(FileName(pages[i].path)))

\* the second pass of main has begun or is over
SecondPass == pc \in {"transform", "write", "done"}

\* the text of a page after both link rewrites under the anchor map map
Rewritten(text, map) ==
    rewrite_md_links_to_local(rewrite_wiki_links_to_local(text, map), map)

\* the first page in sort order whose keys hold the name of reference pr
\* (0 when none does)
NamedPage(pr) == FirstRegistrant(pages, normalize_key(ProbeName(pr)))

\* C12: in main the anchor map holds the lookup keys of every loaded page
\* before the first page's text is rewritten, no step of the second pass
\* changes it, and so the text of every page, wherever the page stands in the
\* order, is emitted with its links resolved as the map of all pages resolves
\* them: a link to a page later in sort order gets the same anchor in every
\* page.
C12_MapCompleteAndFixedInSecondPass ==
    /\ [](/\ Len(output_sections) > 1 => SecondPass
          /\ SecondPass =>
               /\ \A i \in DOMAIN pages :
                     KeysOf(pages[i]) \subseteq DOMAIN page_anchor_map
               /\ page_anchor_map = AnchorMapFrom(<<>>, pages)
               /\ \A i \in DOMAIN pages :
                     Emitted(i) =>
                        Contains(output_sections[i + 1],
                                 Rewritten(pages[i].raw, page_anchor_map)))
    /\ [][SecondPass => page_anchor_map' = page_anchor_map]_vars

\* C12 witness: the second pass has emitted the first page and not yet the
\* second; the first page's text refers to a page that only a later page's
\* keys name, and its section holds the link to that later page's anchor.
C12_Witness ==
    /\ pc = "transform" /\ idx = 2
    /\ \E pr \in Probes :
         /\ pages[1].raw = InText(ProbeRef(pr))
         /\ NamedPage(pr) > 1
         /\ anchor_slug(pages[NamedPage(pr)].title) # <<>>
         /\ Contains(output_sections[2],
                     InText(LocalLink(Strip(ShownLabel(pr)),
                                      anchor_slug(pages[NamedPage(pr)].title))))

-----------------------------------------------------------------------------
(* Properties of heading normalization *)

\* s without its blanks and line breaks
WithoutWhitespace(s) == SelectSeq(s, LAMBDA c : ~IsSpace(c))

\* C5 as stated: normalize_heading(T, normalize_heading(T, C)) equals
\* normalize_heading(T, C) up to whitespace: the second application inserts
\* no second title heading and does not demote the body again.
C5_NormalizeHeadingIdempotent ==
    h_pc = "twice" =>
      WithoutWhitespace(h_twice) = WithoutWhitespace(h_once)

\* whether a line starts with a fence mark
StartsWithFence(line) == \E f \in Fence3 : StartsWith(line, f)

\* the lines of L that toggle the fence state: the lines that start with a
\* fence mark, leading blanks skipped or not
FenceLines(L, skip_blanks) ==
    { j \in DOMAIN L :
        StartsWithFence(IF skip_blanks THEN LStrip(L[j]) ELSE L[j]) }

\* line i is reached inside a fence: an odd number of fence lines precede it
InsideFence(F, i) == Cardinality({j \in F : j < i}) % 2 = 1

\* the level of a heading line: 1 to 6 # marks at the start of the line,
\* then a blank, then text; 0 for any other line
HeadingLevel(line) ==
    LET n == LeadRun(line, {"#"})
    IN IF n \in 1..6 /\ Len(line) > n /\ IsSpace(line[n + 1])
          /\ ~IsBlank(Drop(line, n))
       THEN n ELSE 0

\* a heading line one level deeper, at most level 6, its text unchanged
DemotedHeading(line) ==
    LET n == HeadingLevel(line)
    IN Hashes(IF n < 6 THEN n + 1 ELSE 6) \o RStrip(Drop(line, n))

\* the result of demote_atx_headings_outside_code is as C6 describes when F
\* are the lines that toggle the fence state
DemotedAsClaimed(F) ==
    LET L == splitlines(h_content)
        O == SplitChar(h_demoted, "\n")
    IN IF L = <<>> THEN h_demoted = <<>>
       ELSE /\ Len(O) = Len(L)
            /\ \A i \in DOMAIN L :
                 /\ (i \in F \/ InsideFence(F, i)) => O[i] = L[i]
                 /\ (i \notin F /\ ~InsideFence(F, i) /\ HeadingLevel(L[i]) > 0)
                      => O[i] = DemotedHeading(L[i])

HasDemoted == h_pc \in {"demoted", "once", "twice"}

\* C6 as stated: the fence state toggles on each line starting with a fence
\* mark; a heading line of level n reached outside a fence becomes level
\* min(n+1, 6) with its text unchanged; every line reached inside a fence and
\* every fence line is emitted unchanged.
C6_DemoteOutsideFencesLiteral ==
    HasDemoted => DemotedAsClaimed(FenceLines(splitlines(h_content), FALSE))

\* C6 amended: the fence state toggles on each line whose text after its
\* leading blanks starts with a fence mark; a heading line of level n reached
\* outside a fence becomes level min(n+1, 6) with its text unchanged; every
\* line reached inside a fence and every fence line is emitted unchanged.
C6_DemoteOutsideFences ==
    HasDemoted => DemotedAsClaimed(FenceLines(splitlines(h_content), TRUE))

\* C6 witness: a heading outside a fence was demoted, an indented fence line
\* follows it, and a heading inside that fence was emitted as it was.
C6_Witness ==
    /\ HasDemoted
    /\ LET L == splitlines(h_content)
           O == SplitChar(h_demoted, "\n")
           F == FenceLines(L, TRUE)
       IN \E i, j, k \in DOMAIN L :
            /\ i < j /\ j < k /\ Len(O) = Len(L)
            /\ HeadingLevel(L[i]) > 0 /\ ~InsideFence(F, i)
            /\ O[i] = DemotedHeading(L[i]) /\ O[i] # L[i]
            /\ j \in F /\ L[j] # LStrip(L[j])
            /\ InsideFence(F, k) /\ HeadingLevel(L[k]) > 0 /\ O[k] = L[k]

\* line i of the lines O is a level-1 heading: written with one # mark, or a
\* non-blank line above an underline of = marks
IsLevel1(O, i) ==
    \/ HeadingLevel(O[i]) = 1
    \/ /\ i < Len(O)
       /\ ~IsBlank(O[i])
       /\ UnderlineOf(O[i + 1]) = "="

\* C13 as stated: after normalize_heading(title, content) the first line of
\* the section is the level-1 heading with the page title, and no other line
\* outside fenced code blocks is a level-1 heading, in # style or in
\* underline style.
C13_OnlyTitleIsLevel1 ==
    h_pc \in {"once", "twice"} =>
       LET O == SplitChar(h_once, "\n")
           F == FenceLines(O, TRUE)
       IN /\ O[1] = <<"#", " ">> \o h_title
          /\ \A i \in 2..Len(O) :
                (i \notin F /\ ~InsideFence(F, i)) => ~IsLevel1(O, i)

-----------------------------------------------------------------------------
(* Properties of link rewriting *)

-----------------------------------------------------------------------------
(* Properties of anchors *)

\* only a-z, 0-9 and hyphens, no two hyphens in a row, no hyphen at either end
WellFormedSlug(s) ==
    /\ \A i \in DOMAIN s : IsLowerAZ(s[i]) \/ IsDigit(s[i]) \/ s[i] = "-"
    /\ \A i \in 1..(Len(s) - 1) : ~(s[i] = "-" /\ s[i + 1] = "-")
    /\ s # <<>> => (s[1] # "-" /\ s[Len(s)] # "-")

\* C8: for every title string anchor_slug returns a string of lowercase
\* letters, digits and hyphens only, with no two adjacent hyphens and no
\* leading or trailing hyphen; the anchor main registers for a page and
\* targets in its line of the table of contents is this function of the
\* page's title.
C8_SlugWellFormed ==
    /\ s_pc \in {"slug", "page"} => WellFormedSlug(s_slug)
    /\ s_pc = "page" =>
         /\ DOMAIN s_map # {}
         /\ \A k \in DOMAIN s_map :
              s_map[k] = anchor_slug(s_page.title) /\ WellFormedSlug(s_map[k])
         /\ variant = "concat" =>
              s_entry = <<"-", " ", "[">> \o s_page.title \o <<"]", "(", "#">>
                        \o anchor_slug(s_page.title) \o <<")">>

\* C8 witness: a title that starts with a character outside a-z0-9, holds an
\* upper-case letter and ends with two characters outside a-z0-9 got a
\* non-empty slug, and the page of that stem was registered.
C8_Witness ==
    /\ s_pc = "page"
    /\ Len(s_title) >= 4
    /\ ~IsSlugChar(s_title[1])
    /\ ~IsSlugChar(s_title[Len(s_title)])
    /\ ~IsSlugChar(s_title[Len(s_title) - 1])
    /\ \E i \in DOMAIN s_title : IsUpperAZ(s_title[i])
    /\ s_slug # <<>>

-----------------------------------------------------------------------------
(* Properties of image processing *)

\* C9 as stated: for every image reference and every fetch outcome that
\* yields no image data, processing does not raise or abort the run, and the
\* reference emitted is the reference with its own original URL text.
C9_FetchFailureKeepsReference ==
    /\ img_pc # "raised"
    /\ \A i \in DOMAIN img_out :
         i \in img_nodata => img_out[i] = RefText(img_refs[i])

\* the URL process_img resolves the reference r to: the key of its cache
\* entry
ResolvedUrl(r) ==
    LET url       == RefToken(r)
        url_clean == StripChars(BeforeChar(url, " "), {" ", "\"", "'"})
    IN IF is_absolute_or_special(url_clean) THEN github_blob_to_raw(url_clean)
       ELSE to_raw_wiki_url(Repo, url)

\* how many times the URL u was fetched
TimesFetched(u) == Cardinality({k \in DOMAIN img_fetched : img_fetched[k] = u})

\* reference j comes after reference i, whose fetch gave no image, and
\* resolves to the same URL; both have been processed
AfterFailedFetch(i, j) ==
    /\ i \in DOMAIN img_out /\ j \in DOMAIN img_out
    /\ i < j
    /\ i \in img_nodata
    /\ ResolvedUrl(img_refs[j]) = ResolvedUrl(img_refs[i])

\* C14 as stated: once the fetch for a resolved image URL has failed in a
\* run, every later reference that resolves to the same URL triggers no
\* further fetch and is emitted with its own original text.
C14_FailedUrlLeftUnchangedLater ==
    \A i, j \in DOMAIN img_refs :
       AfterFailedFetch(i, j) =>
          /\ TimesFetched(ResolvedUrl(img_refs[i])) = 1
          /\ img_out[j] = RefText(img_refs[j])

-----------------------------------------------------------------------------
(* Properties of the fallback title *)

\* A separator after a numeric prefix: hyphen, underscore or space
IsSeparator(c) == c \in {"-", "_", " "}

\* The length of the numeric prefix of a stem with its separator: two digits,
\* at most one lowercase letter, one separator; 0 when the stem has none
NumericPrefixLen(stem) ==
    IF Len(stem) >= 3 /\ IsDigit(stem[1]) /\ IsDigit(stem[2])
          /\ IsSeparator(stem[3])
    THEN 3
    ELSE IF Len(stem) >= 4 /\ IsDigit(stem[1]) /\ IsDigit(stem[2])
               /\ IsLowerAZ(stem[3]) /\ IsSeparator(stem[4])
    THEN 4
    ELSE 0

\* The title as stated: the stem without its numeric prefix, hyphens and
\* underscores turned into spaces (surrounding whitespace is not compared)
StatedTitle(stem) ==
    Strip(ReplaceChar(ReplaceChar(Drop(stem, NumericPrefixLen(stem)),
                                  "-", " "), "_", " "))

\* C11 as stated: for every filename stem the title extract_order_and_title
\* derives is the text after the numeric prefix (two digits, optionally one
\* lowercase letter, then a separator) with hyphens and underscores turned
\* into spaces, and the whole stem so converted when it has no such prefix.
C11_FallbackTitleFromStem ==
    s_pc = "page" => s_page.title = StatedTitle(s_title)

-----------------------------------------------------------------------------
(* Properties of download_image *)

\* the top-level call has returned
Returned == d_pc = "returned"

\* response k was an HTML page from which an image URL was extracted
GaveImageUrl(k) ==
    /\ is_html(d_responses[k])
    /\ Truthy(extract_image_from_html(d_responses[k], d_requests[k]))

\* C16: one top-level call of download_image returns whatever the server
\* answers; it issues at most two requests, the second only when the first
\* response was an HTML page from which an image URL was extracted, and an
\* HTML response to the second request returns None with no further request.
C16_AtMostTwoRequests ==
    /\ [](/\ Len(d_requests) <= 2
          /\ Len(d_requests) = 2 =>
               /\ GaveImageUrl(1)
               /\ (is_html(d_responses[2]) => Returned /\ d_result = None)
          /\ Returned => d_result \in {None, ImageData})
    /\ (d_pc = "call" ~> Returned)

\* C16 witness: the call has returned None after two requests, both answered
\* by an HTML page that names an image URL.
C16_Witness ==
    /\ Returned
    /\ d_result = None
    /\ Len(d_requests) = 2
    /\ GaveImageUrl(1)
    /\ GaveImageUrl(2)

=============================================================================
